---- MODULE Spec2Model ----
(***************************************************************************)
(* A model of fsApplier.Apply (diff/apply/apply.go): the layer-diff        *)
(* application engine.  Each in-flight Apply call is a process that walks  *)
(* the statements of Apply: option application, store.ReaderAt, the        *)
(* processor-chain loop, WithTempMount { archive.Apply; io.Copy }, the     *)
(* return, and the deferred calls in LIFO order.                           *)
(*                                                                         *)
(* The collaborators whose code lives in other packages of the repository  *)
(* (content store, diff.GetProcessor, mount.WithTempMount, archive.Apply)  *)
(* are modelled from their documented contracts.  Those that take ctx      *)
(* (ReaderAt, GetProcessor, WithTempMount's acquisition, archive.Apply)    *)
(* honour it: once ctx is done they fail with the cancellation error.      *)
(* io.Copy takes no ctx and reads on.                                      *)
(***************************************************************************)
EXTENDS Integers, Sequences, FiniteSets, TLC

\* ------------------------------------------------------------------ bounds

\* Longest canonical stream, in bytes.
MaxLen == 2
\* Number of distinct byte values.
NumByteVals == 2
\* Most option functions passed to one Apply call.
MaxOpts == 2
\* Most bytes one Read call returns (the caller's buffer length).
MaxRead == 2
\* Most decoder stages the model lets one call request.
MaxStages == 3

\* ------------------------------------------------------------- data model

Calls == {"a", "b"}

None == "none"

Byte == 0 .. (NumByteVals - 1)

\* The header bytes the two codecs put in front of their payload.
GzHeader == NumByteVals
EncHeader == NumByteVals + 1

SeqsUpTo(S, n) == UNION {[1 .. k -> S] : k \in 0 .. n}

Streams == SeqsUpTo(Byte, MaxLen)

\* ocispec.MediaTypeImageLayer: the canonical (uncompressed) layer label.
MediaTypeImageLayer == "layer"

\* Media-type labels: the canonical one, a compressed one, a doubly encoded
\* one, one whose outer encoding wraps an unregistered label, an
\* unregistered label, and one a degenerate registration maps to itself.
Labels == {"layer", "layer+gzip", "layer+gzip+enc", "blob+enc", "blob", "loop"}

\* The decoder registry behind diff.GetProcessor: the labels with a registered
\* decoder, and for each the codec of the stage it returns and the label that
\* stage reports.
HasDecoder(l) == l \in {"layer", "layer+gzip", "layer+gzip+enc", "blob+enc", "loop"}

StageCodec(l) ==
    CASE l = "layer+gzip"     -> "gzip"
      [] l = "layer+gzip+enc" -> "enc"
      [] l = "blob+enc"       -> "enc"
      [] OTHER                -> "identity"

StageLabel(l) ==
    CASE l = "layer"          -> "layer"
      [] l = "layer+gzip"     -> "layer"
      [] l = "layer+gzip+enc" -> "layer+gzip"
      [] l = "blob+enc"       -> "blob"
      [] OTHER                -> l

\* Encoded streams hold payload bytes and header bytes.
NumEncVals == NumByteVals + 2

\* gzip stand-in: a header byte, then every byte complemented.
GzEncode(s) == <<GzHeader>> \o [i \in 1 .. Len(s) |-> (NumEncVals - 1) - s[i]]
\* enc stand-in: a header byte, then every byte rotated by one.
EncEncode(s) == <<EncHeader>> \o [i \in 1 .. Len(s) |-> (s[i] + 1) % NumEncVals]

Encode(codec, s) ==
    CASE codec = "gzip" -> GzEncode(s)
      [] codec = "enc"  -> EncEncode(s)
      [] OTHER          -> s

\* Whether a decoder of `codec` accepts the stream's header.
HeaderOk(codec, s) ==
    CASE codec = "gzip" -> Len(s) >= 1 /\ s[1] = GzHeader
      [] codec = "enc"  -> Len(s) >= 1 /\ s[1] = EncHeader
      [] OTHER          -> TRUE

\* What a decoder of `codec` produces from an accepted stream.
Decode(codec, s) ==
    CASE codec = "gzip" -> [i \in 1 .. (Len(s) - 1) |-> (NumEncVals - 1) - s[i + 1]]
      [] codec = "enc"  ->
            [i \in 1 .. (Len(s) - 1) |-> (s[i + 1] + NumEncVals - 1) % NumEncVals]
      [] OTHER          -> s

\* The stored bytes of a canonical stream s under media type l: s wrapped in
\* the codecs the label names, innermost first.
RECURSIVE EncodeAs(_, _, _)
EncodeAs(l, s, fuel) ==
    IF ~HasDecoder(l) THEN s
    ELSE IF fuel = 0 \/ StageLabel(l) = l THEN Encode(StageCodec(l), s)
    ELSE Encode(StageCodec(l), EncodeAs(StageLabel(l), s, fuel - 1))

\* digest.Canonical over a byte sequence: a collision-free hash is the
\* sequence itself under the algorithm's name.
Digest(bytes) == <<"sha256", bytes>>

\* ocispec.Descriptor{}
emptyDesc == [MediaType |-> "", Size |-> 0, Digest |-> <<"", <<>>>>]

\* An option function either configures a processor payload or fails.
OptKinds == {"payload", "bad"}
OptSeqs == SeqsUpTo(OptKinds, MaxOpts)

\* No token fetch in progress.
TokIdle == [pc |-> "idle"]

\* ------------------------------------------------------------------ state

VARIABLES
    desc,        \* the input descriptor of each call
    opts,        \* the option functions passed to each call
    blob,        \* the bytes the content store holds for the descriptor
    canon,       \* the canonical stream the stored bytes were encoded from
    pc,          \* where each call is in Apply
    applied,     \* indices of the option functions invoked so far, in order
    config,      \* config.ProcessorPayloads: the payloads the options set
    raCalls,     \* how many times store.ReaderAt was called
    raOpen,      \* whether the store reader ra is open
    raClosed,    \* how many times ra.Close ran
    requested,   \* labels of the streams handed to diff.GetProcessor, in order
    stages,      \* decoder stages obtained: [label, closed], in order
    stream,      \* the bytes the current processor will produce
    pos,         \* how many of them have been read
    rcC,         \* readCounter.c
    hashed,      \* the bytes written to digester.Hash()
    mountAcq,    \* how many times the temporary mount was acquired
    mountRel,    \* how many times it was released
    mountHeld,   \* whether the temporary mount is held
    extractCalls,\* how many times archive.Apply was invoked
    fsBytes,     \* bytes of the stream the extractor has applied to the mount
    cbErr,       \* the error WithTempMount's callback returned
    cancelled,   \* whether ctx is done
    cancelAt,    \* the step at which ctx became done (None if it did not)
    d,           \* the named result d
    err,         \* the named result err
    defers,      \* the deferred calls, last registered last
    logged,      \* how many "diff applied" records were emitted
    logRecs,     \* the log records emitted, in order
    closeErrs,   \* the deferred Close calls that returned an error
    srcRead,     \* what the last processor.Read returned: <<n, err>>
    lastRead,    \* what the last rc.Read returned: <<n, err>>
    tok          \* a token fetch of the auth package (see FetchToken below)

inputs == <<desc, opts, blob, canon>>
cfgVars == <<applied, config>>
raVars == <<raCalls, raOpen, raClosed>>
chainVars == <<requested, stages, stream>>
rcVars == <<pos, rcC, hashed, srcRead, lastRead>>
mountVars == <<mountAcq, mountRel, mountHeld>>
exVars == <<extractCalls, fsBytes, cbErr>>
ctxVars == <<cancelled, cancelAt>>
retVars == <<d, err>>
obsVars == <<logRecs, closeErrs>>

vars == <<inputs, pc, cfgVars, raVars, chainVars, rcVars, mountVars, exVars,
          ctxVars, retVars, defers, logged, obsVars, tok>>

\* The steps at which Apply blocks on a collaborator.
BlockingSteps == {"readerAt", "chain", "mount", "extract", "drain"}

\* The Digest and Size the input descriptor claims: those of the stored
\* bytes, or wrong ones.
ClaimKinds == {"true", "false"}

ClaimedDigest(claim, bytes) ==
    IF claim = "true" THEN Digest(bytes) ELSE Digest(Append(bytes, 0))

ClaimedSize(claim, bytes) ==
    IF claim = "true" THEN Len(bytes) ELSE Len(bytes) + 1

\* What one call is given: the descriptor's media type, the option functions,
\* the canonical stream, whether the store holds it well-formed (encoded as
\* the media type says) or not, what the descriptor claims, and whether the
\* call is made at all.
AllInputs ==
    [mt : Labels, opts : OptSeqs, canon : Streams, wf : BOOLEAN,
     claim : ClaimKinds, run : {TRUE}]

IdleInput ==
    [mt |-> MediaTypeImageLayer, opts |-> <<>>, canon |-> <<>>, wf |-> TRUE,
     claim |-> "true", run |-> FALSE]

\* The bytes the store holds for an input.
StoredBytes(i) ==
    IF i.wf THEN EncodeAs(i.mt, i.canon, MaxStages) ELSE i.canon

\* The state of calls that have just entered Apply with inputs drawn from
\* SA (call "a") and SB (call "b"): the logging closure is deferred (lines
\* 54-64) and the option loop starts.
InitCalls(SA, SB) ==
    \E ia \in SA, ib \in SB :
      LET in == [p \in Calls |-> IF p = "a" THEN ia ELSE ib] IN
    /\ desc = [p \in Calls |->
                 [MediaType |-> in[p].mt,
                  Digest    |-> ClaimedDigest(in[p].claim, StoredBytes(in[p])),
                  Size      |-> ClaimedSize(in[p].claim, StoredBytes(in[p]))]]
    /\ opts = [p \in Calls |-> in[p].opts]
    /\ canon = [p \in Calls |-> in[p].canon]
    /\ blob = [p \in Calls |-> StoredBytes(in[p])]
    /\ pc = [p \in Calls |->
                IF ~in[p].run THEN "idle"
                ELSE IF in[p].opts = <<>> THEN "readerAt" ELSE "opts"]
    /\ defers = [p \in Calls |-> IF in[p].run THEN <<"log">> ELSE <<>>]
    /\ applied = [p \in Calls |-> <<>>]
    /\ config = [p \in Calls |-> {}]
    /\ raCalls = [p \in Calls |-> 0]
    /\ raOpen = [p \in Calls |-> FALSE]
    /\ raClosed = [p \in Calls |-> 0]
    /\ requested = [p \in Calls |-> <<>>]
    /\ stages = [p \in Calls |-> <<>>]
    /\ stream = [p \in Calls |-> <<>>]
    /\ pos = [p \in Calls |-> 0]
    /\ rcC = [p \in Calls |-> 0]
    /\ hashed = [p \in Calls |-> <<>>]
    /\ mountAcq = [p \in Calls |-> 0]
    /\ mountRel = [p \in Calls |-> 0]
    /\ mountHeld = [p \in Calls |-> FALSE]
    /\ extractCalls = [p \in Calls |-> 0]
    /\ fsBytes = [p \in Calls |-> 0]
    /\ cbErr = [p \in Calls |-> "nil"]
    /\ cancelled = [p \in Calls |-> FALSE]
    /\ cancelAt = [p \in Calls |-> None]
    /\ d = [p \in Calls |-> emptyDesc]
    /\ err = [p \in Calls |-> "nil"]
    /\ logged = [p \in Calls |-> 0]
    /\ logRecs = [p \in Calls |-> <<>>]
    /\ closeErrs = [p \in Calls |-> {}]
    /\ srcRead = [p \in Calls |-> <<0, "nil">>]
    /\ lastRead = [p \in Calls |-> <<0, "nil">>]

\* ----------------------------------------------------------------- helpers

Min(x, y) == IF x < y THEN x ELSE y

Push(s, e) == Append(s, e)

\* A return statement of Apply: the named results are set and the deferred
\* calls start to run.
Return(p, dd, e) ==
    /\ d' = [d EXCEPT ![p] = dd]
    /\ err' = [err EXCEPT ![p] = e]
    /\ pc' = [pc EXCEPT ![p] = "defer"]

\* The label of the stream `processor` currently exposes: the descriptor's
\* media type for the initial chain, else the last stage's MediaType().
CurLabel(p) ==
    IF stages[p] = <<>> THEN desc[p].MediaType
    ELSE stages[p][Len(stages[p])].label

\* How many bytes the current processor still has to give.
Remaining(p) == Len(stream[p]) - pos[p]

\* Fault: the tee is put on the store's bytes instead of the processor's.
TeeSourceRaw(p) == blob[p]

\* The reader io.TeeReader copies into the digester: the resolved processor.
TeeSource(p) == stream[p]

\* processor.Read returning the next n bytes of its stream with error e
\* ("nil", "EOF", or "err" for any other error).
ProcessorRead(p, n, e) ==
    /\ pos' = [pos EXCEPT ![p] = @ + n]
    /\ srcRead' = [srcRead EXCEPT ![p] = <<n, e>>]

\* io.TeeReader(processor, digester.Hash()).Read: the n bytes the processor
\* returned, and exactly those, are written to the hash.
TeeRead(p, n, e) ==
    /\ ProcessorRead(p, n, e)
    /\ hashed' = [hashed EXCEPT ![p] =
                    @ \o SubSeq(TeeSource(p), pos[p] + 1, pos[p] + n)]

\* Fault: one counter serves all the calls of the applier.
ReadCounterReadShared(p, n, e) ==
    /\ TeeRead(p, n, e)
    /\ rcC' = [q \in Calls |-> rcC[q] + n]
    /\ lastRead' = [lastRead EXCEPT ![p] = <<n, e>>]

\* Fault: the bytes of a read that also returned an error are not counted.
ReadCounterReadCountsOnSuccess(p, n, e) ==
    /\ TeeRead(p, n, e)
    /\ rcC' = [rcC EXCEPT ![p] = IF e = "nil" THEN @ + n ELSE @]
    /\ lastRead' = [lastRead EXCEPT ![p] = <<n, e>>]

\* readCounter.Read (lines 117-121): n and err are those of rc.r.Read, and
\* the count grows by n.
ReadCounterRead(p, n, e) ==
    /\ TeeRead(p, n, e)
    /\ rcC' = [rcC EXCEPT ![p] = @ + n]
    /\ lastRead' = [lastRead EXCEPT ![p] = <<n, e>>]

\* ----------------------------------------------------------------- actions

\* Lines 67-71, an option function that succeeds: it records its payload in
\* config and the loop goes on.
ApplyOptOk(p) ==
    /\ pc[p] = "opts"
    /\ LET i == Len(applied[p]) + 1 IN
         /\ opts[p][i] = "payload"
         /\ applied' = [applied EXCEPT ![p] = Append(@, i)]
         /\ config' = [config EXCEPT ![p] = @ \cup {i}]
         /\ pc' = [pc EXCEPT ![p] =
                     IF i < Len(opts[p]) THEN "opts" ELSE "readerAt"]
    /\ UNCHANGED <<inputs, raVars, chainVars, rcVars, mountVars, exVars,
                   ctxVars, retVars, defers, logged, obsVars, tok>>

\* Fault: the option's error is dropped and the loop goes on.
ApplyOptErrIgnored(p) ==
    /\ pc[p] = "opts"
    /\ LET i == Len(applied[p]) + 1 IN
         /\ opts[p][i] = "bad"
         /\ applied' = [applied EXCEPT ![p] = Append(@, i)]
         /\ pc' = [pc EXCEPT ![p] =
                     IF i < Len(opts[p]) THEN "opts" ELSE "readerAt"]
    /\ UNCHANGED <<inputs, config, raVars, chainVars, rcVars, mountVars,
                   exVars, ctxVars, retVars, defers, logged, obsVars, tok>>

\* Lines 68-70, an option function that fails: Apply returns at once.
ApplyOptErr(p) ==
    /\ pc[p] = "opts"
    /\ LET i == Len(applied[p]) + 1 IN
         /\ opts[p][i] = "bad"
         /\ applied' = [applied EXCEPT ![p] = Append(@, i)]
    /\ Return(p, emptyDesc, "config")
    /\ UNCHANGED <<inputs, config, raVars, chainVars, rcVars, mountVars,
                   exVars, ctxVars, defers, logged, obsVars, tok>>

\* Fault: ra.Close is not deferred.
ReaderAtOkNoDefer(p) ==
    /\ pc[p] = "readerAt"
    /\ ~cancelled[p]
    /\ raCalls' = [raCalls EXCEPT ![p] = @ + 1]
    /\ raOpen' = [raOpen EXCEPT ![p] = TRUE]
    /\ stream' = [stream EXCEPT ![p] = blob[p]]
    /\ pc' = [pc EXCEPT ![p] = "chain"]
    /\ UNCHANGED <<inputs, cfgVars, raClosed, requested, stages, rcVars,
                   mountVars, exVars, ctxVars, retVars, defers, logged, obsVars, tok>>

\* Fault: the label is tested before the first stage is requested, so a
\* descriptor that is already canonical gets no stage.
ReaderAtOkTestFirst(p) ==
    /\ pc[p] = "readerAt"
    /\ ~cancelled[p]
    /\ raCalls' = [raCalls EXCEPT ![p] = @ + 1]
    /\ raOpen' = [raOpen EXCEPT ![p] = TRUE]
    /\ defers' = [defers EXCEPT ![p] = Push(@, "raClose")]
    /\ stream' = [stream EXCEPT ![p] = blob[p]]
    /\ pc' = [pc EXCEPT ![p] =
                IF desc[p].MediaType = MediaTypeImageLayer
                THEN "mount" ELSE "chain"]
    /\ UNCHANGED <<inputs, cfgVars, raClosed, requested, stages, rcVars,
                   mountVars, exVars, ctxVars, retVars, logged, obsVars, tok>>

\* Lines 73-79, store.ReaderAt succeeds: ra.Close is deferred and the initial
\* processor chain reads the stored bytes.
ReaderAtOk(p) ==
    /\ pc[p] = "readerAt"
    /\ ~cancelled[p]
    /\ raCalls' = [raCalls EXCEPT ![p] = @ + 1]
    /\ raOpen' = [raOpen EXCEPT ![p] = TRUE]
    /\ defers' = [defers EXCEPT ![p] = Push(@, "raClose")]
    /\ stream' = [stream EXCEPT ![p] = blob[p]]
    /\ pc' = [pc EXCEPT ![p] = "chain"]
    /\ UNCHANGED <<inputs, cfgVars, raClosed, requested, stages, rcVars,
                   mountVars, exVars, ctxVars, retVars, logged, obsVars, tok>>

\* Lines 73-76, store.ReaderAt fails (content missing or unreadable, or ctx
\* done): Apply returns the retrieval error.
ReaderAtErr(p) ==
    /\ pc[p] = "readerAt"
    /\ raCalls' = [raCalls EXCEPT ![p] = @ + 1]
    /\ Return(p, emptyDesc, IF cancelled[p] THEN "cancelled" ELSE "retrieval")
    /\ UNCHANGED <<inputs, cfgVars, raOpen, raClosed, chainVars, rcVars,
                   mountVars, exVars, ctxVars, defers, logged, obsVars, tok>>

\* Fault: the loop is left after the first stage, whatever label it reports.
GetProcessorOkBreakEarly(p) ==
    /\ pc[p] = "chain"
    /\ ~cancelled[p]
    /\ Len(stages[p]) < MaxStages
    /\ LET l == CurLabel(p) IN
         /\ HasDecoder(l)
         /\ HeaderOk(StageCodec(l), stream[p])
         /\ requested' = [requested EXCEPT ![p] = Append(@, l)]
         /\ stages' = [stages EXCEPT ![p] =
                         Append(@, [label |-> StageLabel(l), closed |-> FALSE])]
         /\ stream' = [stream EXCEPT ![p] = Decode(StageCodec(l), @)]
         /\ pc' = [pc EXCEPT ![p] = "mount"]
         /\ defers' = [defers EXCEPT ![p] = Push(@, "procClose")]
    /\ UNCHANGED <<inputs, cfgVars, raVars, rcVars, mountVars, exVars,
                   ctxVars, retVars, logged, obsVars, tok>>

\* Lines 80-93, diff.GetProcessor returns a stage: the loop goes on unless
\* the stage reports the canonical label; then processor.Close is deferred
\* and the digester and the read counter are set up.
GetProcessorOk(p) ==
    /\ pc[p] = "chain"
    /\ ~cancelled[p]
    /\ Len(stages[p]) < MaxStages
    /\ LET l == CurLabel(p) IN
         /\ HasDecoder(l)
         /\ HeaderOk(StageCodec(l), stream[p])
         /\ requested' = [requested EXCEPT ![p] = Append(@, l)]
         /\ stages' = [stages EXCEPT ![p] =
                         Append(@, [label |-> StageLabel(l), closed |-> FALSE])]
         /\ stream' = [stream EXCEPT ![p] = Decode(StageCodec(l), @)]
         /\ IF StageLabel(l) = MediaTypeImageLayer
            THEN /\ pc' = [pc EXCEPT ![p] = "mount"]
                 /\ defers' = [defers EXCEPT ![p] = Push(@, "procClose")]
            ELSE /\ pc' = [pc EXCEPT ![p] = "chain"]
                 /\ UNCHANGED defers
    /\ UNCHANGED <<inputs, cfgVars, raVars, rcVars, mountVars, exVars,
                   ctxVars, retVars, logged, obsVars, tok>>

\* Fault: GetProcessor's error is dropped and Apply goes on to the mount.
GetProcessorErrIgnored(p) ==
    /\ pc[p] = "chain"
    /\ LET l == CurLabel(p) IN
         /\ cancelled[p] \/ ~HasDecoder(l) \/ ~HeaderOk(StageCodec(l), stream[p])
         /\ requested' = [requested EXCEPT ![p] = Append(@, l)]
    /\ pc' = [pc EXCEPT ![p] = "mount"]
    /\ UNCHANGED <<inputs, cfgVars, raVars, stages, stream, rcVars, mountVars,
                   exVars, ctxVars, retVars, defers, logged, obsVars, tok>>

\* Lines 81-83, diff.GetProcessor fails (no decoder for the label, a
\* malformed header, or ctx done): Apply returns the error.
GetProcessorErr(p) ==
    /\ pc[p] = "chain"
    /\ LET l == CurLabel(p) IN
         /\ cancelled[p] \/ ~HasDecoder(l) \/ ~HeaderOk(StageCodec(l), stream[p])
         /\ requested' = [requested EXCEPT ![p] = Append(@, l)]
    /\ Return(p, emptyDesc, IF cancelled[p] THEN "cancelled" ELSE "decode")
    /\ UNCHANGED <<inputs, cfgVars, raVars, stages, stream, rcVars, mountVars,
                   exVars, ctxVars, defers, logged, obsVars, tok>>

\* Line 94, mount.WithTempMount acquires the temporary mount and invokes the
\* callback, which calls archive.Apply (line 95).
MountAcquireOk(p) ==
    /\ pc[p] = "mount"
    /\ ~cancelled[p]
    /\ mountAcq' = [mountAcq EXCEPT ![p] = @ + 1]
    /\ mountHeld' = [mountHeld EXCEPT ![p] = TRUE]
    /\ extractCalls' = [extractCalls EXCEPT ![p] = @ + 1]
    /\ pc' = [pc EXCEPT ![p] = "extract"]
    /\ UNCHANGED <<inputs, cfgVars, raVars, chainVars, rcVars, mountRel,
                   fsBytes, cbErr, ctxVars, retVars, defers, logged, obsVars, tok>>

\* Line 94, mount.WithTempMount cannot acquire the mount (or ctx is done):
\* it returns its error without invoking the callback.
MountAcquireErr(p) ==
    /\ pc[p] = "mount"
    /\ cbErr' = [cbErr EXCEPT ![p] = IF cancelled[p] THEN "cancelled" ELSE "mount"]
    /\ pc' = [pc EXCEPT ![p] = "ret"]
    /\ UNCHANGED <<inputs, cfgVars, raVars, chainVars, rcVars, mountVars,
                   extractCalls, fsBytes, ctxVars, retVars, defers, logged, obsVars, tok>>

\* archive.Apply reads n bytes of the canonical stream through rc and
\* applies them to the mount.
ExtractRead(p, n) ==
    /\ pc[p] = "extract"
    /\ ~cancelled[p]
    /\ n \in 1 .. Min(MaxRead, Remaining(p))
    /\ ReadCounterRead(p, n, "nil")
    /\ fsBytes' = [fsBytes EXCEPT ![p] = @ + n]
    /\ UNCHANGED <<inputs, pc, cfgVars, raVars, chainVars, mountVars,
                   extractCalls, cbErr, ctxVars, retVars, defers, logged, obsVars, tok>>

\* Fault: the callback returns right after extraction, without the drain.
ExtractOkNoDrain(p) ==
    /\ pc[p] = "extract"
    /\ ~cancelled[p]
    /\ cbErr' = [cbErr EXCEPT ![p] = "nil"]
    /\ pc' = [pc EXCEPT ![p] = "unmount"]
    /\ UNCHANGED <<inputs, cfgVars, raVars, chainVars, rcVars, mountVars,
                   extractCalls, fsBytes, ctxVars, retVars, defers, logged, obsVars, tok>>

\* Lines 95-100, archive.Apply returns nil, whether or not it read the whole
\* stream: the callback goes on to read the trailing data.
ExtractOk(p) ==
    /\ pc[p] = "extract"
    /\ ~cancelled[p]
    /\ pc' = [pc EXCEPT ![p] = "drain"]
    /\ UNCHANGED <<inputs, cfgVars, raVars, chainVars, rcVars, mountVars,
                   exVars, ctxVars, retVars, defers, logged, obsVars, tok>>

\* Lines 95-97, archive.Apply fails: with n = 0 on an entry it rejects or on
\* ctx done, with n >= 1 on a read of rc that returned n bytes and an error.
\* The callback returns the error.
ExtractErr(p, n) ==
    /\ pc[p] = "extract"
    /\ n \in 0 .. (IF cancelled[p] THEN 0 ELSE Min(MaxRead, Remaining(p)))
    /\ IF n = 0 THEN UNCHANGED rcVars ELSE ReadCounterRead(p, n, "err")
    /\ cbErr' = [cbErr EXCEPT ![p] =
                   IF cancelled[p] THEN "cancelled" ELSE "extraction"]
    /\ pc' = [pc EXCEPT ![p] = "unmount"]
    /\ UNCHANGED <<inputs, cfgVars, raVars, chainVars, mountVars,
                   extractCalls, fsBytes, ctxVars, retVars, defers, logged, obsVars, tok>>

\* Line 100, io.Copy(ioutil.Discard, rc): a read that returns n bytes and no
\* error; the copy goes on.
DrainRead(p, n) ==
    /\ pc[p] = "drain"
    /\ n \in 1 .. Min(MaxRead, Remaining(p))
    /\ ReadCounterRead(p, n, "nil")
    /\ UNCHANGED <<inputs, pc, cfgVars, raVars, chainVars, mountVars, exVars,
                   ctxVars, retVars, defers, logged, obsVars, tok>>

\* Lines 100-101, io.Copy: the read that returns the last n bytes (possibly
\* none) with io.EOF; the copy, and the callback, return nil.
DrainEOF(p, n) ==
    /\ pc[p] = "drain"
    /\ n \in 0 .. MaxRead
    /\ n = Remaining(p)
    /\ ReadCounterRead(p, n, "EOF")
    /\ cbErr' = [cbErr EXCEPT ![p] = "nil"]
    /\ pc' = [pc EXCEPT ![p] = "unmount"]
    /\ UNCHANGED <<inputs, cfgVars, raVars, chainVars, mountVars,
                   extractCalls, fsBytes, ctxVars, retVars, defers, logged, obsVars, tok>>

\* Fault: the error of the drain is dropped and the callback returns nil.
DrainErrSwallowed(p, n) ==
    /\ pc[p] = "drain"
    /\ n \in 0 .. Min(MaxRead, Remaining(p))
    /\ ReadCounterRead(p, n, "err")
    /\ cbErr' = [cbErr EXCEPT ![p] = "nil"]
    /\ pc' = [pc EXCEPT ![p] = "unmount"]
    /\ UNCHANGED <<inputs, cfgVars, raVars, chainVars, mountVars,
                   extractCalls, fsBytes, ctxVars, retVars, defers, logged, obsVars, tok>>

\* Lines 100-101, io.Copy: a read that returns n bytes and an error other
\* than io.EOF (a truncated stream); the callback returns that error.
DrainErr(p, n) ==
    /\ pc[p] = "drain"
    /\ n \in 0 .. Min(MaxRead, Remaining(p))
    /\ ReadCounterRead(p, n, "err")
    /\ cbErr' = [cbErr EXCEPT ![p] = "incomplete"]
    /\ pc' = [pc EXCEPT ![p] = "unmount"]
    /\ UNCHANGED <<inputs, cfgVars, raVars, chainVars, mountVars,
                   extractCalls, fsBytes, ctxVars, retVars, defers, logged, obsVars, tok>>

\* mount.WithTempMount releases the mount after the callback returned and
\* returns the callback's error.
MountRelease(p) ==
    /\ pc[p] = "unmount"
    /\ mountRel' = [mountRel EXCEPT ![p] = @ + 1]
    /\ mountHeld' = [mountHeld EXCEPT ![p] = FALSE]
    /\ pc' = [pc EXCEPT ![p] = "ret"]
    /\ UNCHANGED <<inputs, cfgVars, raVars, chainVars, rcVars, mountAcq,
                   exVars, ctxVars, retVars, defers, logged, obsVars, tok>>

\* Fault: the result takes Size and Digest from the input descriptor.
ResultDescTrustsInput(p) ==
    [MediaType |-> MediaTypeImageLayer,
     Size      |-> desc[p].Size,
     Digest    |-> desc[p].Digest]

\* The descriptor Apply builds on success (lines 105-109).
ResultDesc(p) ==
    [MediaType |-> MediaTypeImageLayer,
     Size      |-> rcC[p],
     Digest    |-> Digest(hashed[p])]

\* Fault: the descriptor accumulated so far is returned with the error.
ApplyReturnPartial(p) ==
    /\ pc[p] = "ret"
    /\ Return(p, ResultDesc(p), cbErr[p])
    /\ UNCHANGED <<inputs, cfgVars, raVars, chainVars, rcVars, mountVars,
                   exVars, ctxVars, defers, logged, obsVars, tok>>

\* Lines 102-109: WithTempMount's error is returned with the empty
\* descriptor; otherwise the result descriptor with a nil error.
ApplyReturn(p) ==
    /\ pc[p] = "ret"
    /\ IF cbErr[p] # "nil"
       THEN Return(p, emptyDesc, cbErr[p])
       ELSE Return(p, ResultDesc(p), "nil")
    /\ UNCHANGED <<inputs, cfgVars, raVars, chainVars, rcVars, mountVars,
                   exVars, ctxVars, defers, logged, obsVars, tok>>

\* Fault: the record is emitted whatever err is.
LogsAlways(p) == TRUE

\* Line 56: the deferred closure logs only when the named result err is nil.
LogsDiffApplied(p) == err[p] = "nil"

\* Lines 57-62: the fields of the "diff applied" record (its duration left
\* out): those of the input descriptor.
DiffAppliedRecord(p) ==
    [msg   |-> "diff applied",
     dgst  |-> desc[p].Digest,
     size  |-> desc[p].Size,
     media |-> desc[p].MediaType]

\* Fault: the deferred calls run first registered first.
NextDeferFifo(p) == 1

\* The deferred call that runs next: the last one registered.
NextDefer(p) == Len(defers[p])

\* The deferred calls run last registered first: processor.Close (line 88),
\* ra.Close (line 77), then the logging closure (lines 55-64).  A Close may
\* return an error (fails); the defer statement discards it.
RunDefer(p, fails) ==
    /\ pc[p] = "defer"
    /\ defers[p] # <<>>
    /\ LET k == Len(defers[p])
           j == NextDefer(p)
           f == defers[p][j]
       IN /\ fails => f \in {"procClose", "raClose"}
          /\ defers' = [defers EXCEPT ![p] =
                          SubSeq(@, 1, j - 1) \o SubSeq(@, j + 1, k)]
          /\ pc' = [pc EXCEPT ![p] = IF k = 1 THEN "done" ELSE "defer"]
          /\ stages' = [stages EXCEPT ![p] =
                          IF f = "procClose"
                          THEN [@ EXCEPT ![Len(@)].closed = TRUE]
                          ELSE @]
          /\ raOpen' = [raOpen EXCEPT ![p] = IF f = "raClose" THEN FALSE ELSE @]
          /\ raClosed' = [raClosed EXCEPT ![p] = IF f = "raClose" THEN @ + 1 ELSE @]
          /\ logged' = [logged EXCEPT ![p] =
                          IF f = "log" /\ LogsDiffApplied(p) THEN @ + 1 ELSE @]
          /\ logRecs' = [logRecs EXCEPT ![p] =
                           IF f = "log" /\ LogsDiffApplied(p)
                           THEN Append(@, DiffAppliedRecord(p))
                           ELSE @]
          /\ closeErrs' = [closeErrs EXCEPT ![p] =
                             IF fails THEN @ \cup {f} ELSE @]
    /\ UNCHANGED <<inputs, cfgVars, raCalls, requested, stream, rcVars,
                   mountVars, exVars, ctxVars, retVars, tok>>

\* The caller's cancellation signal fires while the call is in flight.
Cancel(p) ==
    /\ pc[p] \in {"opts"} \cup BlockingSteps
    /\ ~cancelled[p]
    /\ cancelled' = [cancelled EXCEPT ![p] = TRUE]
    /\ cancelAt' = [cancelAt EXCEPT ![p] = pc[p]]
    /\ UNCHANGED <<inputs, pc, cfgVars, raVars, chainVars, rcVars, mountVars,
                   exVars, retVars, defers, logged, obsVars, tok>>

Step(p) ==
    \/ ApplyOptOk(p)
    \/ ApplyOptErr(p)
    \/ ReaderAtOk(p)
    \/ ReaderAtErr(p)
    \/ GetProcessorOk(p)
    \/ GetProcessorErr(p)
    \/ MountAcquireOk(p)
    \/ MountAcquireErr(p)
    \/ \E n \in 1 .. MaxRead : ExtractRead(p, n)
    \/ ExtractOk(p)
    \/ \E n \in 0 .. MaxRead : ExtractErr(p, n)
    \/ \E n \in 1 .. MaxRead : DrainRead(p, n)
    \/ \E n \in 0 .. MaxRead : DrainEOF(p, n)
    \/ \E n \in 0 .. MaxRead : DrainErr(p, n)
    \/ MountRelease(p)
    \/ ApplyReturn(p)
    \/ \E fails \in BOOLEAN : RunDefer(p, fails)
    \/ Cancel(p)

Next == \E p \in Calls : Step(p)

\* One Apply call, over every input.
Init == InitCalls(AllInputs, {IdleInput}) /\ tok = TokIdle

Spec == Init /\ [][Next]_vars

\* Two concurrent Apply calls on one applier, against different descriptors:
\* call "a" a gzip layer over one full-length stream, call "b" a plain layer
\* or an undecodable blob over another.
PairCanonA == [i \in 1 .. MaxLen |-> 0]
PairCanonB == [i \in 1 .. MaxLen - 1 |-> i % NumByteVals]

PairInputsA ==
    {i \in AllInputs :
       /\ i.mt = "layer+gzip"
       /\ i.opts = <<"payload">>
       /\ i.canon = PairCanonA
       /\ i.claim = "true"
       /\ i.wf}

PairInputsB ==
    {i \in AllInputs :
       /\ i.mt \in {"layer", "blob+enc"}
       /\ i.opts \in {<<>>, <<"bad">>}
       /\ i.canon = PairCanonB
       /\ i.claim = "true"
       /\ i.wf}

InitPair == InitCalls(PairInputsA, PairInputsB) /\ tok = TokIdle

SpecPair == InitPair /\ [][Next]_vars

\* Two Apply calls over the same stored bytes, media type, options and
\* decoders, whose input descriptors differ only in the Digest and Size they
\* claim: call "a" claims the true ones, call "b" wrong ones.
TwinInputs ==
    {i \in AllInputs :
       /\ i.mt = "layer+gzip"
       /\ i.opts \in {<<"payload">>, <<"payload", "bad">>}
       /\ i.canon = PairCanonB
       /\ i.claim = "true"
       /\ i.wf}

InitTwin ==
    \E i \in TwinInputs :
      InitCalls({i}, {[i EXCEPT !.claim = "false"]}) /\ tok = TokIdle

SpecTwin == InitTwin /\ [][Next]_vars

\* ------------------------------------------------------------ derived state

\* The call has returned and its deferred calls have run.
Returned(p) == pc[p] = "done"

\* The call has executed a return statement (its results are set).
HasResult(p) == pc[p] \in {"defer", "done"}

\* The processor chain was resolved down to the canonical label.
Resolved(p) ==
    /\ stages[p] # <<>>
    /\ stages[p][Len(stages[p])].label = MediaTypeImageLayer

\* store.ReaderAt was called and failed: it was called, and there is no
\* reader, open or closed.
ReaderAtFailed(p) == raCalls[p] = 1 /\ ~raOpen[p] /\ raClosed[p] = 0

\* ----------------------------------------------------------------- claims

\* C1: processor chain resolution always terminates, also under a registry
\* in which a label maps to itself.  The registry answers by label, and the
\* identity stage of a self-mapping label leaves the stream as it was, so a
\* label handed to diff.GetProcessor a second time starts a resolution that
\* never ends: a terminating resolution hands it every label at most once.
C1_ChainResolutionTerminates ==
    \A p \in Calls :
      \A i, j \in 1 .. Len(requested[p]) :
        i # j => requested[p][i] # requested[p][j]

\* C2: the temporary mount is acquired at most once, released exactly once
\* whenever it was acquired, whatever the outcome, and not held once
\* WithTempMount has returned; a call that has not resolved its processor
\* chain (it failed in the options, in ReaderAt or in GetProcessor) has
\* neither acquired nor released a mount.
C2_MountReleasedExactlyOnce ==
    \A p \in Calls :
      /\ mountAcq[p] <= 1
      /\ mountRel[p] <= mountAcq[p]
      /\ mountHeld[p] <=> (mountAcq[p] = 1 /\ mountRel[p] = 0)
      /\ pc[p] \in {"ret", "defer", "done"} =>
           (~mountHeld[p] /\ mountRel[p] = mountAcq[p])
      /\ ~Resolved(p) => (mountAcq[p] = 0 /\ mountRel[p] = 0)

\* The mount was acquired, ctx became done during extraction, and the call
\* returned with the mount released once.
C2_Witness ==
    /\ Returned("a")
    /\ cancelAt["a"] = "extract"
    /\ err["a"] = "cancelled"
    /\ mountAcq["a"] = 1
    /\ mountRel["a"] = 1
    /\ ~mountHeld["a"]

\* C3: a store reader that ReaderAt returned is closed exactly once by the
\* time Apply has returned, on every exit path, and never twice; when
\* ReaderAt fails Apply returns the retrieval error with the empty
\* descriptor and closes nothing.
C3_StoreReaderClosedOnce ==
    \A p \in Calls :
      /\ raCalls[p] <= 1
      /\ raClosed[p] <= 1
      /\ raOpen[p] => (raCalls[p] = 1 /\ raClosed[p] = 0)
      /\ raClosed[p] = 1 => raCalls[p] = 1
      /\ Returned(p) => ~raOpen[p]
      /\ (Returned(p) /\ raCalls[p] = 1 /\ ~ReaderAtFailed(p)) => raClosed[p] = 1
      /\ ReaderAtFailed(p) =>
           /\ HasResult(p)
           /\ err[p] \in {"retrieval", "cancelled"}
           /\ d[p] = emptyDesc
           /\ requested[p] = <<>>

\* ReaderAt succeeded, extraction failed, and the call returned with the
\* reader closed once.
C3_Witness ==
    /\ Returned("a")
    /\ err["a"] = "extraction"
    /\ raClosed["a"] = 1
    /\ ~raOpen["a"]

\* C4: every decoder stage Apply obtained from GetProcessor is closed by the
\* time Apply has returned, whether or not resolution succeeded.
C4_EveryStageClosed ==
    \A p \in Calls :
      Returned(p) => \A i \in 1 .. Len(stages[p]) : stages[p][i].closed

\* C5: on every successful Apply the returned Size is the byte length of the
\* whole canonical stream: what the extractor consumed plus what it left
\* unread, wherever the extractor stopped.
C5_SizeIsCanonicalLength ==
    \A p \in Calls :
      (HasResult(p) /\ err[p] = "nil") =>
        /\ d[p].Size = Len(canon[p])
        /\ fsBytes[p] <= Len(canon[p])

\* A successful call whose extractor stopped strictly inside the stream.
C5_Witness ==
    /\ Returned("a")
    /\ err["a"] = "nil"
    /\ 0 < fsBytes["a"]
    /\ fsBytes["a"] < Len(canon["a"])
    /\ d["a"].Size = Len(canon["a"])

\* C6: round-trip identity: a successful Apply of the stored encoding of a
\* canonical stream s, under any codec chain, returns the digest of s and
\* the canonical layer label.
C6_RoundTripDigest ==
    \A p \in Calls :
      (HasResult(p) /\ err[p] = "nil") =>
        /\ d[p].Digest = Digest(canon[p])
        /\ d[p].MediaType = MediaTypeImageLayer

\* A successful call on a doubly encoded stream of full length.
C6_Witness ==
    /\ Returned("a")
    /\ err["a"] = "nil"
    /\ desc["a"].MediaType = "layer+gzip+enc"
    /\ Len(canon["a"]) = MaxLen
    /\ blob["a"] # canon["a"]
    /\ d["a"].Digest = Digest(canon["a"])

\* C7: when the descriptor's media type, or a label reached during
\* resolution, has no registered decoder, Apply returns an error with the
\* empty descriptor, never acquires the mount and never invokes the
\* extraction algorithm.
C7_UnknownMediaTypeNoMutation ==
    \A p \in Calls :
      (\E i \in 1 .. Len(requested[p]) : ~HasDecoder(requested[p][i])) =>
        /\ HasResult(p)
        /\ err[p] # "nil"
        /\ d[p] = emptyDesc
        /\ mountAcq[p] = 0
        /\ extractCalls[p] = 0
        /\ fsBytes[p] = 0

\* A call that obtained one stage and then met a label with no decoder.
C7_Witness ==
    /\ Returned("a")
    /\ desc["a"].MediaType = "blob+enc"
    /\ requested["a"] = <<"blob+enc", "blob">>
    /\ err["a"] = "decode"

\* C8: options are applied in the order given, and once an option function
\* fails Apply returns the configuration error: no later option is applied,
\* ReaderAt is not called, no stage is requested, no mount is acquired.
C8_OptionFailureAbortsFirst ==
    \A p \in Calls :
      /\ \A i \in 1 .. Len(applied[p]) : applied[p][i] = i
      /\ Len(applied[p]) <= Len(opts[p])
      /\ \A k \in 1 .. Len(applied[p]) :
           opts[p][k] = "bad" =>
             /\ k = Len(applied[p])
             /\ HasResult(p)
             /\ err[p] = "config"
             /\ d[p] = emptyDesc
             /\ raCalls[p] = 0
             /\ requested[p] = <<>>
             /\ mountAcq[p] = 0
      /\ raCalls[p] > 0 => Len(applied[p]) = Len(opts[p])

\* A call whose first of two options failed.
C8_Witness ==
    /\ Returned("a")
    /\ Len(opts["a"]) = 2
    /\ opts["a"][1] = "bad"
    /\ applied["a"] = <<1>>
    /\ err["a"] = "config"

\* C9: if ctx becomes done while Apply is at a blocking step (store read,
\* stage resolution, mount acquisition, extraction, trailing-data drain),
\* Apply returns a cancellation error, with the mount released and the store
\* reader closed.
C9_CancellationReturnsError ==
    \A p \in Calls :
      (Returned(p) /\ cancelAt[p] \in BlockingSteps) =>
        /\ err[p] = "cancelled"
        /\ ~mountHeld[p]
        /\ ~raOpen[p]

\* Everything one call owns: its position, configuration, store reader,
\* processor chain, counting reader, digester, mount and results.
Local(q) ==
    <<pc[q], applied[q], config[q], raCalls[q], raOpen[q], raClosed[q],
      requested[q], stages[q], stream[q], pos[q], rcC[q], hashed[q],
      mountAcq[q], mountRel[q], mountHeld[q], extractCalls[q], fsBytes[q],
      cbErr[q], cancelled[q], cancelAt[q], d[q], err[q], defers[q],
      logged[q], desc[q], opts[q], blob[q], canon[q], logRecs[q],
      closeErrs[q], srcRead[q], lastRead[q]>>

\* The descriptor a successful call returns when it runs alone (C5, C6).
Baseline(p) ==
    [MediaType |-> MediaTypeImageLayer,
     Size      |-> Len(canon[p]),
     Digest    |-> Digest(canon[p])]

\* C10: two Apply calls running concurrently on one applier, against
\* different descriptors and mounts, under every interleaving: each
\* successful call returns the descriptor it returns when run alone, each
\* returned call has released its mount and closed its store reader, and no
\* step of one call changes anything the other call owns.
C10_ConcurrentIndependence ==
    /\ [](\A p \in Calls :
            /\ (HasResult(p) /\ err[p] = "nil") => d[p] = Baseline(p)
            /\ (HasResult(p) /\ err[p] # "nil") => d[p] = emptyDesc
            /\ Returned(p) =>
                 /\ ~mountHeld[p]
                 /\ mountRel[p] = mountAcq[p]
                 /\ ~raOpen[p]
                 /\ raClosed[p] = (IF ReaderAtFailed(p) THEN 0 ELSE raCalls[p]))
    /\ [][\E p \in Calls : \A q \in Calls \ {p} : Local(q)' = Local(q)]_vars

\* Both calls have returned successfully, with different descriptors.
C10_Witness ==
    /\ Returned("a") /\ Returned("b")
    /\ err["a"] = "nil" /\ err["b"] = "nil"
    /\ d["a"] = Baseline("a") /\ d["b"] = Baseline("b")
    /\ d["a"] # d["b"]
    /\ desc["a"] # desc["b"]

\* C11: the descriptor a successful Apply returns does not depend on the
\* Digest and Size the input descriptor claims: two calls over the same
\* stored bytes, media type, options and decoders, differing only in the
\* claimed Digest and Size, return the same descriptor when both succeed,
\* and its Size and Digest are those the counting reader accumulated, its
\* MediaType the canonical layer label.
C11_OutputIgnoresClaimedDigestSize ==
    /\ \A p \in Calls :
         (HasResult(p) /\ err[p] = "nil") =>
           /\ d[p].Size = rcC[p]
           /\ d[p].Digest = Digest(hashed[p])
           /\ d[p].MediaType = MediaTypeImageLayer
    /\ (HasResult("a") /\ HasResult("b") /\ err["a"] = "nil" /\ err["b"] = "nil")
         => d["a"] = d["b"]

\* Both calls succeeded over the same stored bytes, one with the true claim
\* and one with a wrong claim, and the stream is encoded and not empty.
C11_Witness ==
    /\ Returned("a") /\ Returned("b")
    /\ err["a"] = "nil" /\ err["b"] = "nil"
    /\ blob["a"] = blob["b"]
    /\ desc["a"].MediaType = "layer+gzip"
    /\ desc["a"].Digest # desc["b"].Digest
    /\ desc["a"].Size # desc["b"].Size
    /\ d["a"] = d["b"]
    /\ canon["a"] # <<>>
    /\ d["a"].Size = Len(canon["a"])

\* The deferred Close calls whose error the call made visible: named in a
\* log record or carried by the returned error.
SurfacedCloseErrs(p) ==
    {f \in closeErrs[p] :
       \/ err[p] = f
       \/ \E i \in 1 .. Len(logRecs[p]) : logRecs[p][i].msg = f}

\* The error Apply returns is the one of the step that failed (none on
\* success): no deferred call changes it.
PrimaryErrorKept(p) ==
    /\ err[p] \notin {"procClose", "raClose"}
    /\ cbErr[p] # "nil" => err[p] = cbErr[p]

\* C12: a Close that fails while Apply tears down never replaces the error
\* Apply returns, and is never silently dropped: once the call has returned,
\* every Close failure is in a log record or in the returned error.
C12_CloseFailuresSurfaced ==
    \A p \in Calls :
      Returned(p) =>
        /\ PrimaryErrorKept(p)
        /\ SurfacedCloseErrs(p) = closeErrs[p]

\* ------------------------------------------------- package auth: token fetch

\* The two token fetch operations (lines 227 and 284).
FetchOps == {"FetchToken", "FetchTokenWithOAuth"}

\* Status codes on both sides of the test of lines 261 and 318.
StatusCodes == {199, 200, 399, 400}

\* Values of a token field of the response body; "" is a field that is
\* absent or empty.
TokenVals == {"", "tokA", "tokB"}

\* ErrNoToken (lines 157-161).
ErrNoToken == "ErrNoToken"

\* One call of a fetch operation and what the server answers to it.
TokInputs ==
    [pc           : {"newRequest"},
     fn           : FetchOps,
     realmOk      : BOOLEAN,
     doOk         : BOOLEAN,
     status       : StatusCodes,
     decodes      : BOOLEAN,
     token        : TokenVals,
     access_token : TokenVals,
     tr           : {[Token |-> "", AccessToken |-> ""]},
     bodyOpen     : {FALSE},
     ret          : {""},
     err          : {"nil"}]

\* A return of the fetch operation: resp.Body.Close is deferred once a
\* response exists (lines 259, 316).
TokReturn(r, e) ==
    tok' = [tok EXCEPT !.pc = "done", !.ret = r, !.err = e, !.bodyOpen = FALSE]

\* Lines 244-247 and 285-288: http.NewRequest on to.Realm.
NewRequest ==
    /\ tok.pc = "newRequest"
    /\ IF tok.realmOk
       THEN tok' = [tok EXCEPT !.pc = "do"]
       ELSE TokReturn("", "newRequest")

\* Lines 255-259 and 312-316: ctxhttp.Do.
Do ==
    /\ tok.pc = "do"
    /\ IF tok.doOk
       THEN tok' = [tok EXCEPT !.pc = "status", !.bodyOpen = TRUE]
       ELSE TokReturn("", "do")

\* Lines 261-263 and 318-320.
CheckStatus ==
    /\ tok.pc = "status"
    /\ IF tok.status < 200 \/ tok.status >= 400
       THEN TokReturn("", "ErrUnexpectedStatus")
       ELSE tok' = [tok EXCEPT !.pc = "decode"]

\* Lines 265-270 and 322-327: the body decoded into postTokenResponse, which
\* has no Token field (lines 219-225), or into getTokenResponse (lines
\* 275-281).
DecodeTokenResponse ==
    /\ tok.pc = "decode"
    /\ IF tok.decodes
       THEN tok' = [tok EXCEPT
                      !.pc = "result",
                      !.tr = [Token       |-> IF tok.fn = "FetchToken"
                                              THEN tok.token ELSE "",
                              AccessToken |-> tok.access_token]]
       ELSE TokReturn("", "decode")

\* Line 272.
FetchTokenWithOAuthResult ==
    /\ tok.pc = "result"
    /\ tok.fn = "FetchTokenWithOAuth"
    /\ TokReturn(tok.tr.AccessToken, "nil")

\* Lines 329-340.
FetchTokenResult ==
    /\ tok.pc = "result"
    /\ tok.fn = "FetchToken"
    /\ LET Token == IF tok.tr.AccessToken # ""
                    THEN tok.tr.AccessToken
                    ELSE tok.tr.Token
       IN IF Token = ""
          THEN TokReturn("", ErrNoToken)
          ELSE TokReturn(Token, "nil")

NextAuth ==
    /\ \/ NewRequest
       \/ Do
       \/ CheckStatus
       \/ DecodeTokenResponse
       \/ FetchTokenWithOAuthResult
       \/ FetchTokenResult
    /\ UNCHANGED <<inputs, cfgVars, raVars, chainVars, rcVars, mountVars,
                   exVars, ctxVars, retVars, defers, logged, obsVars, pc>>

InitAuth == InitCalls({IdleInput}, {IdleInput}) /\ tok \in TokInputs

SpecAuth == InitAuth /\ [][NextAuth]_vars

\* The request of a returned fetch succeeded: it was built and sent, the
\* status is in 200..399 and the body decoded.
RequestSucceeded ==
    /\ tok.realmOk /\ tok.doOk
    /\ tok.status >= 200 /\ tok.status < 400
    /\ tok.decodes

\* The response body holds no authorization token.
NoTokenInBody == tok.token = "" /\ tok.access_token = ""

\* C13: for FetchToken and for FetchTokenWithOAuth, a fetch whose request
\* succeeded and whose response body holds no token returns ErrNoToken, and
\* no fetch returns the empty string with a nil error.
C13_NoTokenIsErrNoToken ==
    tok.pc = "done" =>
      /\ (RequestSucceeded /\ NoTokenInBody) => tok.err = ErrNoToken
      /\ ~(tok.ret = "" /\ tok.err = "nil")

\* C14: after any sequence of reads of the counting reader, short reads and
\* reads that return bytes together with an error included, its count is
\* the number of bytes the processor returned, which is the number of bytes
\* written to the digester; the bytes written are those returned, in order;
\* and each read returned the (n, err) the processor returned.
C14_CanonicalReaderInvariant ==
    \A p \in Calls :
      /\ rcC[p] = pos[p]
      /\ Len(hashed[p]) = pos[p]
      /\ pos[p] > 0 => hashed[p] = SubSeq(stream[p], 1, pos[p])
      /\ lastRead[p] = srcRead[p]

\* The stream was read in short reads, and the last read returned a byte
\* together with an error.
C14_Witness ==
    /\ lastRead["a"] = <<1, "err">>
    /\ rcC["a"] = MaxLen
    /\ fsBytes["a"] = MaxLen - 1
    /\ hashed["a"] = stream["a"]
    /\ pc["a"] = "done"

\* The call is past the drain and the drain failed: the last read of rc
\* returned an error other than io.EOF, and it was not a read of extraction.
DrainFailed(p) ==
    /\ pc[p] \in {"unmount", "ret", "defer", "done"}
    /\ extractCalls[p] = 1
    /\ lastRead[p][2] = "err"
    /\ cbErr[p] # "extraction"

\* C15: when extraction succeeded and the read of the remaining bytes
\* failed, Apply returns an error and the empty descriptor, the mount is
\* released before Apply returns, and no step from the drain on changes what
\* extraction wrote.
C15_DrainFailureReturnsErrorKeepsFiles ==
    /\ [](\A p \in Calls :
            /\ DrainFailed(p) => cbErr[p] = "incomplete"
            /\ (DrainFailed(p) /\ HasResult(p)) =>
                 /\ err[p] = "incomplete"
                 /\ d[p] = emptyDesc
                 /\ ~mountHeld[p]
                 /\ mountRel[p] = 1)
    /\ [][\A p \in Calls :
            pc[p] \in {"drain", "unmount", "ret", "defer"} =>
              fsBytes'[p] = fsBytes[p]]_vars

\* Extraction wrote a byte, the drain then failed, and the call returned.
C15_Witness ==
    /\ Returned("a")
    /\ DrainFailed("a")
    /\ fsBytes["a"] = 1
    /\ rcC["a"] = MaxLen
    /\ err["a"] = "incomplete"
    /\ d["a"] = emptyDesc
    /\ mountAcq["a"] = 1 /\ mountRel["a"] = 1

\* C16: the "diff applied" record is emitted exactly once by every Apply
\* call that returns a nil error and never by a call that returns an error,
\* whichever step failed, and never before the call's results are set; the
\* record carries the Digest, Size and MediaType of the input descriptor.
C16_DiffAppliedLoggedOnSuccessOnly ==
    \A p \in Calls :
      /\ logged[p] = Len(logRecs[p])
      /\ logged[p] <= 1
      /\ ~HasResult(p) => logged[p] = 0
      /\ Returned(p) => (logged[p] = 1 <=> err[p] = "nil")
      /\ logged[p] = 1 =>
           /\ err[p] = "nil"
           /\ logRecs[p][1].msg = "diff applied"
           /\ logRecs[p][1].dgst = desc[p].Digest
           /\ logRecs[p][1].size = desc[p].Size
           /\ logRecs[p][1].media = desc[p].MediaType

\* A call over an encoded layer with a wrong claimed digest returned nil and
\* logged the claimed digest, not the one it computed.
C16_Witness ==
    /\ Returned("a")
    /\ err["a"] = "nil"
    /\ logRecs["a"] = <<DiffAppliedRecord("a")>>
    /\ desc["a"].MediaType = "layer+gzip"
    /\ logRecs["a"][1].dgst # d["a"].Digest
    /\ logRecs["a"][1].dgst # Digest(blob["a"])
    /\ closeErrs["a"] = {}

\* The final stage of the chain was closed.
LastStageClosed(p) ==
    /\ stages[p] # <<>>
    /\ stages[p][Len(stages[p])].closed

\* The resolved chain is held: its final stage exists and is not closed.
ChainHeld(p) == Resolved(p) /\ ~LastStageClosed(p)

\* C17: Apply acquires the store reader, then the decoder chain, then the
\* mount, and releases them in the reverse order: the mount is released
\* before the final stage is closed, the final stage is closed before the
\* store reader is closed, and extraction and drain run only while all
\* three are held.
C17_AcquireReleaseOrder ==
    \A p \in Calls :
      /\ stages[p] # <<>> => raCalls[p] = 1 /\ ~ReaderAtFailed(p)
      /\ mountAcq[p] > 0 => Resolved(p)
      /\ mountHeld[p] => raOpen[p] /\ ChainHeld(p)
      /\ LastStageClosed(p) =>
           /\ Resolved(p)
           /\ ~mountHeld[p]
           /\ mountRel[p] = mountAcq[p]
      /\ raClosed[p] > 0 =>
           /\ ~mountHeld[p]
           /\ Resolved(p) => LastStageClosed(p)
      /\ pc[p] \in {"extract", "drain"} =>
           mountHeld[p] /\ raOpen[p] /\ ChainHeld(p)
      /\ (extractCalls[p] > 0 /\ pc[p] \in {"unmount", "ret"}) =>
           raOpen[p] /\ ChainHeld(p)

\* In the teardown of a call that extracted: the mount is released and the
\* final stage closed while the store reader is still open.
C17_Witness ==
    /\ pc["a"] = "defer"
    /\ fsBytes["a"] > 0
    /\ mountAcq["a"] = 1 /\ mountRel["a"] = 1 /\ ~mountHeld["a"]
    /\ LastStageClosed("a")
    /\ Len(stages["a"]) = 2
    /\ raOpen["a"] /\ raClosed["a"] = 0

\* C18: Apply returns a non-empty descriptor if and only if it returns a nil
\* error: with every error (option, store read, processor, mount,
\* extraction, drain) the descriptor is the empty one, whatever size and
\* digest the counting reader had accumulated.
C18_DescriptorIffNilError ==
    \A p \in Calls :
      HasResult(p) =>
        /\ err[p] = "nil" <=> d[p] # emptyDesc
        /\ err[p] = "nil" => d[p] = ResultDesc(p)

\* The call failed in the drain after the counting reader had counted and
\* hashed the whole stream, and returned the empty descriptor.
C18_Witness ==
    /\ Returned("a")
    /\ err["a"] = "incomplete"
    /\ rcC["a"] = MaxLen
    /\ hashed["a"] = canon["a"]
    /\ ResultDesc("a") # emptyDesc
    /\ d["a"] = emptyDesc

\* The call got its store reader and has left the chain loop.
PastChainLoop(p) ==
    /\ raOpen[p] \/ raClosed[p] > 0
    /\ \/ pc[p] \in {"mount", "extract", "drain", "unmount", "ret"}
       \/ mountAcq[p] > 0
       \/ cbErr[p] # "nil"

\* C19: Apply requests a stage before it tests the label, also when the
\* input media type is already the canonical layer label; each request
\* names the label the chain exposes at that point; no stage but the last
\* reports the canonical label; and the extraction algorithm is invoked only
\* on a stage that reports the canonical label.
C19_StageRequestedBeforeLabelTest ==
    \A p \in Calls :
      /\ Len(requested[p]) \in {Len(stages[p]), Len(stages[p]) + 1}
      /\ requested[p] # <<>> => requested[p][1] = desc[p].MediaType
      /\ \A i \in 1 .. Len(stages[p]) :
           /\ i < Len(stages[p]) => stages[p][i].label # MediaTypeImageLayer
           /\ i < Len(requested[p]) => requested[p][i + 1] = stages[p][i].label
      /\ Resolved(p) => Len(requested[p]) = Len(stages[p])
      /\ PastChainLoop(p) => requested[p] # <<>> /\ Resolved(p)
      /\ extractCalls[p] > 0 =>
           /\ Resolved(p)
           /\ CurLabel(p) = MediaTypeImageLayer

\* A call whose input media type is already canonical requested exactly one
\* stage, for that label, and then extracted.
C19_Witness ==
    /\ desc["a"].MediaType = MediaTypeImageLayer
    /\ requested["a"] = <<MediaTypeImageLayer>>
    /\ Len(stages["a"]) = 1
    /\ extractCalls["a"] = 1
    /\ fsBytes["a"] = MaxLen
    /\ Returned("a") /\ err["a"] = "nil"

====
